---- MODULE Spec2Model ----
(***************************************************************************)
(* A model of jam: the lookahead iterator (jam/struct), the                *)
(* Document record with its derived identity and dict serialization, and   *)
(* the duplicate handling of the document store (jam/ir/document_store).   *)
(*                                                                         *)
(* Each component has its own specification over its own variables; the    *)
(* variables of the other components stay at their idle values.            *)
(*   SpecIter   the NIterator wrapper driven by has_next()/next() calls    *)
(*   SpecStore  write_documents under a duplicate policy, one call at a    *)
(*              time                                                       *)
(*   SpecCalls  a sequence of 'skip' and 'fail' writes of one Document     *)
(*   SpecRace   two write_documents calls whose steps interleave           *)
(*   SpecId     Document construction and id derivation                    *)
(*   SpecScheme the hashing scheme of a construction, direct or through    *)
(*              Document.from_dict                                         *)
(*   SpecSerial Document.to_dict followed by Document.from_dict, and       *)
(*              Document.from_dict on a dict                               *)
(*   SpecLabel  Label construction, __eq__ and __hash__                    *)
(*   SpecBot    the conversation of the bot (jam/tdk/rise.py): the states  *)
(*              of the chats under commands, messages and callbacks        *)
(*                                                                         *)
(* The values of the iterator are strings ("None", "True", "False" for     *)
(* the three values a flag takes); the values of Documents and Labels are  *)
(* records of one shape, so that values of different Python types can be   *)
(* compared.                                                               *)
(***************************************************************************)
EXTENDS Integers, Sequences, FiniteSets, TLC

VARIABLES
    \* ---- NIterator (src/jam/struct/core/struct.py)
    S,              \* the wrapped sequence
    it,             \* self.it: how many elements of S were pulled so far
    _has_next,      \* self._has_next: "None" | "True" | "False"
    _the_next,      \* self._the_next: the cached element, "None" at first
    out,            \* history: the values the successful next() calls returned
    icall,          \* history: the last call, its result and the state before it
    peeks,          \* history: has_next() calls since the last next()
    peek_first,     \* history: the answer of the first has_next() of the run
    peek_it,        \* history: self.it when the run of has_next() calls began
    was_exhausted,  \* history: no element was left at some earlier point
    \* ---- BaseDocStore (src/jam/ir/document_store/base/store.py)
    store,          \* the backend's data: the set of Documents of each index
    wcall,          \* the write_documents call that just ran, or the idle record
    \* ---- Document identity (src/jam/ir/document_store/base/store.py)
    hashseed,       \* per-process state: the interpreter's string hash seed
    docA,           \* the first Document constructed, with its arguments
    docB,           \* the second Document constructed, with its arguments
    \* ---- Document serialization
    rt,             \* a to_dict / from_dict round trip in progress, or idle
    \* ---- two write_documents calls running at the same time
    race,           \* each writer's call: its arguments, its position, its result
    race_log,       \* history: the lookups and backend writes, in the order they ran
    \* ---- write_documents calls one after the other
    calls,          \* history: the calls made so far, each with its result
    \* ---- Label (src/jam/ir/document_store/base/store.py)
    labA,           \* the first Label constructed
    labB,           \* the object it is compared with: a Label or something else
    \* ---- the bot's conversation (src/jam/tdk/rise.py)
    chat,           \* machine's state of each chat
    upd,            \* history: the last update handled, its handler and its outcome
    authorized,     \* history: the chats whose name passed the login lookup
    accepted        \* history: the chats whose 'confirm_true' ASKED_LICENSE handled

iterVars == <<S, it, _has_next, _the_next, out, icall, peeks, peek_first,
              peek_it, was_exhausted>>

storeVars == <<store, wcall>>

idVars == <<hashseed, docA, docB>>

serialVars == <<rt>>

raceVars == <<race, race_log>>

callsVars == <<calls>>

labelVars == <<labA, labB>>

botVars == <<chat, upd, authorized, accepted>>

vars == <<iterVars, storeVars, idVars, serialVars, raceVars, callsVars, labelVars,
          botVars>>

\* The Python value None.
None == "None"

(***************************************************************************)
(* Bounds of the model.                                                    *)
(***************************************************************************)
\* longest wrapped sequence
MaxLen == 3
\* most consecutive has_next() calls without a next() in between
MaxPeeks == 3

\* what the wrapped sequence holds
Elems == {"a", "b"}

Seqs(X, n) == UNION {[1..k -> X] : k \in 0..n}

(***************************************************************************)
(* The values a component's variables hold while another component runs.   *)
(***************************************************************************)
\* the indexes of the store: the default one and the one of the login lookup
Indexes == {"document", "login"}

IterIdle ==
    /\ S = <<>>
    /\ it = 0
    /\ _has_next = None
    /\ _the_next = None
    /\ out = <<>>
    /\ icall = None
    /\ peeks = 0
    /\ peek_first = None
    /\ peek_it = 0
    /\ was_exhausted = FALSE

\* no write_documents call has run, or its result was taken
NoWrite == [op |-> "idle"]

\* no Document was constructed
NotBuilt == [built |-> FALSE]

\* no round trip is in progress
NoRoundTrip == [phase |-> "idle"]

StoreIdle ==
    /\ store = [i \in Indexes |-> {}]
    /\ wcall = NoWrite

IdIdle ==
    /\ hashseed = 0
    /\ docA = NotBuilt
    /\ docB = NotBuilt

SerialIdle == rt = NoRoundTrip

\* the two writers
Writers == {1, 2}

\* a writer that has not called write_documents
NotCalled == [pc |-> "idle"]

RaceIdle ==
    /\ race = [w \in Writers |-> NotCalled]
    /\ race_log = <<>>

CallsIdle == calls = <<>>

LabelIdle ==
    /\ labA = NotBuilt
    /\ labB = NotBuilt

\* the chats that talk to the bot
Chats == {1, 2}

\* no update was handled
NoUpdate == [kind |-> "none"]

BotIdle ==
    /\ chat = [c \in Chats |-> "DEFAULT"]
    /\ upd = NoUpdate
    /\ authorized = {}
    /\ accepted = {}

(***************************************************************************)
(*                              NIterator                                  *)
(***************************************************************************)

\* next(self.it) on the iterator of a finite sequence: the next element, or
\* StopIteration once all were pulled (and at every later call).
BuiltinNext(seq, pulled) ==
    IF pulled < Len(seq)
    THEN [raised |-> FALSE, value |-> seq[pulled + 1], it |-> pulled + 1]
    ELSE [raised |-> TRUE, value |-> None, it |-> pulled]

\* NIterator.__init__
NIteratorInit == [it |-> 0, _has_next |-> None, _the_next |-> None]

\* A next() that resets the peek flag in a finally clause: also when it fails.
NIteratorNextResetsOnFailure(seq, self) ==
    IF self._has_next = "True"
    THEN [raised |-> FALSE, result |-> self._the_next,
          self |-> [self EXCEPT !._has_next = None]]
    ELSE LET r == BuiltinNext(seq, self.it)
         IN  [raised |-> r.raised, result |-> r.value,
              self |-> [self EXCEPT !.it = r.it, !._has_next = None]]

\* A next() that forgets to clear the peek flag.
NIteratorNextKeepsFlag(seq, self) ==
    IF self._has_next = "True"
    THEN [raised |-> FALSE, result |-> self._the_next, self |-> self]
    ELSE LET r == BuiltinNext(seq, self.it)
         IN  [raised |-> r.raised, result |-> r.value,
              self |-> [self EXCEPT !.it = r.it]]

\* A next() that never looks at the cache: it pulls on every call.
NIteratorNextIgnoresCache(seq, self) ==
    LET r == BuiltinNext(seq, self.it)
    IN  IF r.raised
        THEN [raised |-> TRUE, result |-> None, self |-> self]
        ELSE [raised |-> FALSE, result |-> r.value,
              self |-> [self EXCEPT !.it = r.it, !._has_next = None]]

\* NIterator.next: the cached element if has_next() cached one, else the next
\* element of the sequence; StopIteration leaves before the flag is reset.
NIteratorNext(seq, self) ==
    IF self._has_next = "True"
    THEN [raised |-> FALSE, result |-> self._the_next,
          self |-> [self EXCEPT !._has_next = None]]
    ELSE LET r == BuiltinNext(seq, self.it)
         IN  IF r.raised
             THEN [raised |-> TRUE, result |-> None, self |-> self]
             ELSE [raised |-> FALSE, result |-> r.value,
                   self |-> [self EXCEPT !.it = r.it, !._has_next = None]]

\* A has_next() that pulls on every call, cached element or not.
NIteratorHasNextAlwaysPulls(seq, self) ==
    LET r == BuiltinNext(seq, self.it)
    IN  IF r.raised
        THEN [result |-> "False", self |-> [self EXCEPT !._has_next = "False"]]
        ELSE [result |-> "True",
              self |-> [self EXCEPT !.it = r.it, !._the_next = r.value,
                                    !._has_next = "True"]]

\* A has_next() whose except and else branches are swapped.
NIteratorHasNextSwapped(seq, self) ==
    IF self._has_next = None
    THEN LET r == BuiltinNext(seq, self.it)
         IN  IF r.raised
             THEN [result |-> "True", self |-> [self EXCEPT !._has_next = "True"]]
             ELSE [result |-> "False",
                   self |-> [self EXCEPT !.it = r.it, !._the_next = r.value,
                                         !._has_next = "False"]]
    ELSE [result |-> self._has_next, self |-> self]

\* NIterator.has_next: pulls one element only when the flag is None.
NIteratorHasNext(seq, self) ==
    IF self._has_next = None
    THEN LET r == BuiltinNext(seq, self.it)
         IN  IF r.raised
             THEN [result |-> "False", self |-> [self EXCEPT !._has_next = "False"]]
             ELSE [result |-> "True",
                   self |-> [self EXCEPT !.it = r.it, !._the_next = r.value,
                                         !._has_next = "True"]]
    ELSE [result |-> self._has_next, self |-> self]

\* The NIterator object of the current state.
Self == [it |-> it, _has_next |-> _has_next, _the_next |-> _the_next]

\* Elements not yet returned by next(): the cached one and those not yet pulled.
Left(seq, self) == (Len(seq) - self.it) + (IF self._has_next = "True" THEN 1 ELSE 0)

NoCall == [op |-> "init", ret |-> None, raised |-> FALSE, pre |-> NIteratorInit,
           pre_left |-> 0, pre_exhausted |-> FALSE]

InitIter ==
    /\ S \in Seqs(Elems, MaxLen)
    /\ it = NIteratorInit.it
    /\ _has_next = NIteratorInit._has_next
    /\ _the_next = NIteratorInit._the_next
    /\ out = <<>>
    /\ icall = NoCall
    /\ peeks = 0
    /\ peek_first = None
    /\ peek_it = 0
    /\ was_exhausted = (Len(S) = 0)
    /\ StoreIdle /\ IdIdle /\ SerialIdle /\ RaceIdle /\ CallsIdle /\ LabelIdle /\ BotIdle

\* A caller calls next().
CallNext ==
    LET r == NIteratorNext(S, Self)
    IN  /\ it' = r.self.it
        /\ _has_next' = r.self._has_next
        /\ _the_next' = r.self._the_next
        /\ out' = IF r.raised THEN out ELSE Append(out, r.result)
        /\ icall' = [op |-> "next", ret |-> r.result, raised |-> r.raised,
                     pre |-> Self, pre_left |-> Left(S, Self),
                     pre_exhausted |-> was_exhausted]
        /\ peeks' = 0
        /\ peek_first' = None
        /\ peek_it' = r.self.it
        /\ was_exhausted' = (was_exhausted \/ Left(S, r.self) = 0)
        /\ UNCHANGED <<S, storeVars, idVars, serialVars, raceVars, callsVars, labelVars, botVars>>

\* A caller calls has_next().
CallHasNext ==
    /\ peeks < MaxPeeks
    /\ LET r == NIteratorHasNext(S, Self)
       IN  /\ it' = r.self.it
           /\ _has_next' = r.self._has_next
           /\ _the_next' = r.self._the_next
           /\ icall' = [op |-> "has_next", ret |-> r.result, raised |-> FALSE,
                        pre |-> Self, pre_left |-> Left(S, Self),
                        pre_exhausted |-> was_exhausted]
           /\ peeks' = peeks + 1
           /\ peek_first' = IF peeks = 0 THEN r.result ELSE peek_first
           /\ was_exhausted' = (was_exhausted \/ Left(S, r.self) = 0)
           /\ UNCHANGED <<S, out, peek_it, storeVars, idVars, serialVars, raceVars, callsVars, labelVars, botVars>>

NextIter == CallNext \/ CallHasNext

SpecIter == InitIter /\ [][NextIter]_vars

(***************************************************************************)
(*                     Properties of the NIterator                         *)
(***************************************************************************)

\* C5: for any interleaving of has_next() and next() calls, the values the
\* successful next() calls returned are the elements of S in their order, each
\* once: they are the prefix of S that is as long as the number of elements
\* pulled less the cached one, and they are all of S once nothing is left.
NextYieldsSequenceInOrder ==
    /\ Len(out) <= Len(S)
    /\ out = SubSeq(S, 1, Len(out))
    /\ Len(out) + (IF _has_next = "True" THEN 1 ELSE 0) = it
    /\ (icall.op = "next" /\ ~icall.raised) =>
            /\ Len(out) >= 1
            /\ icall.ret = S[Len(out)]
    /\ (icall.op = "next" /\ icall.raised) => out = S

\* C5's case: next() calls interleaved with has_next() calls returned a whole
\* sequence of three elements.
NextYieldsSequenceInOrderWitness ==
    /\ Len(S) = 3
    /\ out = S
    /\ icall.op = "next"
    /\ icall.pre._has_next = "True"
    /\ S[1] # S[2]

\* C6: consecutive has_next() calls with no next() in between pull at most one
\* element in total, all give the answer of the first, and the next() that
\* follows returns the element that was next when the run began.
HasNextIdempotent ==
    (icall.op = "has_next" /\ peeks >= 1) =>
        /\ it - peek_it <= 1
        /\ icall.ret = peek_first
        /\ icall.ret \in {"True", "False"}
        /\ LET r == NIteratorNext(S, Self)
           IN  IF peek_it < Len(S)
               THEN ~r.raised /\ r.result = S[peek_it + 1]
               ELSE r.raised

\* C6's case: a third has_next() in a row, with elements behind the cached one.
HasNextIdempotentWitness ==
    /\ icall.op = "has_next"
    /\ peeks = 3
    /\ icall.ret = "True"
    /\ peek_it + 1 < Len(S)

\* C7: once no element is left, every later has_next() returns false, whatever
\* has_next() and failing next() calls came in between.
HasNextFalseAfterExhaustion ==
    /\ (icall.op = "has_next" /\ icall.pre_exhausted) => icall.ret = "False"
    /\ was_exhausted => Left(S, Self) = 0

\* C7's case: the third has_next() in a row on a sequence whose elements were
\* all returned before.
HasNextFalseAfterExhaustionWitness ==
    /\ Len(S) >= 2
    /\ out = S
    /\ icall.op = "has_next"
    /\ icall.pre_exhausted
    /\ icall.ret = "False"
    /\ peeks = 3

\* C8: next() with no element left (none cached, none in the sequence) raises,
\* returns nothing and leaves the peek flag and the cached element as they
\* were; next() with an element left does not raise.
NextFailsOnlyWhenExhausted ==
    icall.op = "next" =>
        /\ icall.raised <=> (icall.pre_left = 0)
        /\ icall.raised =>
            /\ icall.ret = None
            /\ _has_next = icall.pre._has_next
            /\ _the_next = icall.pre._the_next
            /\ it = icall.pre.it

\* C8's case: next() failed right after has_next() had answered false.
NextFailsOnlyWhenExhaustedWitness ==
    /\ icall.op = "next"
    /\ icall.raised
    /\ icall.pre._has_next = "False"
    /\ Len(S) >= 1

\* C21: the wrapper is never more than one element ahead of its consumer:
\* the elements pulled from the sequence are those next() returned, and one
\* more exactly when an element is cached (the flag is True); the cached
\* element is then the one that follows those returned.
AtMostOneAhead ==
    /\ it = Len(out) + (IF _has_next = "True" THEN 1 ELSE 0)
    /\ it <= Len(S)
    /\ _has_next = "True" => _the_next = S[it]

\* C21's case: after an element was returned, two has_next() calls in a row
\* answered True, and one element is cached.
AtMostOneAheadWitness ==
    /\ Len(out) = 1
    /\ icall.op = "has_next"
    /\ peeks = 2
    /\ _has_next = "True"
    /\ it = 2
    /\ Len(S) = 3

(***************************************************************************)
(*                        Python values and dicts                          *)
(*                                                                         *)
(* A value is a record of one shape: a string or a number is the sequence  *)
(* of its characters, a dict the sequence of its items in insertion order, *)
(* the keys being strings.                                                 *)
(***************************************************************************)
NoneVal == [kind |-> "none", s |-> <<>>, m |-> <<>>]
Str(chars) == [kind |-> "str", s |-> chars, m |-> <<>>]
Num(chars) == [kind |-> "num", s |-> chars, m |-> <<>>]
Vec(chars) == [kind |-> "vec", s |-> chars, m |-> <<>>]
DictVal(items) == [kind |-> "dict", s |-> <<>>, m |-> items]
\* True and False, with the characters str() gives them
Bool(b) ==
    [kind |-> "bool", s |-> IF b THEN <<"T", "r", "u", "e">> ELSE <<"F", "a", "l", "s", "e">>,
     m |-> <<>>]

\* k in d
HasKey(d, k) == \E i \in 1..Len(d) : d[i].k = k

\* d[k], for a key of d
Get(d, k) == d[CHOOSE i \in 1..Len(d) : d[i].k = k].v

\* d[k] = v: a key d holds keeps its place, a new key goes last
Put(d, k, v) ==
    IF HasKey(d, k)
    THEN [i \in 1..Len(d) |-> IF d[i].k = k THEN [k |-> k, v |-> v] ELSE d[i]]
    ELSE Append(d, [k |-> k, v |-> v])

\* the keys of d, as a set
Keys(d) == {d[i].k : i \in 1..Len(d)}

\* bool(v): None, the empty string and the empty dict are falsy
Truthy(v) ==
    CASE v.kind = "none" -> FALSE
      [] v.kind = "dict" -> Len(v.m) > 0
      [] v.kind = "str" -> Len(v.s) > 0
      [] OTHER -> TRUE

\* str(v): a string is itself; any other value is rendered by its kind and
\* its characters (the rendering of a dict is not spelled out)
PyStr(v) ==
    CASE v.kind = "str" -> v
      [] v.kind = "none" -> Str(<<"N", "o", "n", "e">>)
      [] v.kind = "dict" -> Str(<<"{", "}">>)
      [] OTHER -> Str(v.s)

(***************************************************************************)
(*                               Document                                  *)
(***************************************************************************)
\* The characters of the model's strings; a character's code is its place.
Chars == <<"0", "1", "2", "3", "4", "5", "6", "7", "8", "9", "a", "b", "c",
           "d", "e", "f", "x", "y", "k", "v", "-", ".", "{", "}", "N", "o", "n",
           "T", "r", "u", "F", "l", "s", "/", "t">>

Code(c) == CHOOSE i \in 1..Len(Chars) : Chars[i] = c

\* The width of the digests of the model. mmh3.hash128 gives 128 bits and a
\* UUID holds 122 bits of an MD5 or SHA-1 digest; the model keeps the shape
\* (a seed-free function of the bytes of the text) at a width TLC's integers
\* hold.
HashBits == 16

HashModulus == 2 ^ HashBits

\* A digest of the characters `chars`: h <- (h * mult + code) mod 2^HashBits,
\* starting from `start`.
RECURSIVE Digest(_, _, _)
Digest(chars, start, mult) ==
    IF Len(chars) = 0
    THEN start
    ELSE Digest(Tail(chars), (start * mult + Code(Head(chars))) % HashModulus, mult)

\* mmh3.hash128(text, signed=False): the seed is the default, 0.
Mmh3Hash128(text) == Digest(text, 0, 31)

\* The hexadecimal digits of n, most significant first ("" for 0).
RECURSIVE HexDigits(_)
HexDigits(n) ==
    IF n = 0 THEN <<>> ELSE Append(HexDigits(n \div 16), Chars[(n % 16) + 1])

\* "{:02x}".format(n): lower-case hexadecimal, zero-padded to two digits
\* at least.
Format02x(n) ==
    LET h == HexDigits(n)
    IN  CASE Len(h) = 0 -> <<"0", "0">>
          [] Len(h) = 1 -> <<"0">> \o h
          [] OTHER -> h

\* n in exactly w hexadecimal digits (n < 16^w).
RECURSIVE FixedHex(_, _)
FixedHex(n, w) ==
    IF w = 0 THEN <<>> ELSE Append(FixedHex(n \div 16, w - 1), Chars[(n % 16) + 1])

\* str(uuid.uuid3(uuid.NAMESPACE_DNS, text)) and str(uuid.uuid5(...)): the
\* digest of the namespace followed by the text, in a fixed width, with the
\* version digit in its group.
UuidStr(version, text) ==
    LET namespace == IF version = "3" THEN 3 ELSE 5
        mult == IF version = "3" THEN 37 ELSE 41
    IN  FixedHex(Digest(text, namespace, mult), (HashBits + 3) \div 4) \o <<"-", version>>

\* hash(str): the interpreter's string hash, seeded per process.
BuiltinHash(text) == Digest(text, hashseed, 31)

\* A _get_id that uses the interpreter's hash() of the text.
GetIdBuiltinHash(self, id_hash_keys, uuid_type) ==
    IF self.text.kind # "str"
    THEN [raised |-> "TypeError", id |-> NoneVal]
    ELSE CASE uuid_type = None ->
                [raised |-> "", id |-> Str(Format02x(BuiltinHash(self.text.s)))]
           [] uuid_type = "uuid3" ->
                [raised |-> "", id |-> Str(UuidStr("3", self.text.s))]
           [] uuid_type = "uuid5" ->
                [raised |-> "", id |-> Str(UuidStr("5", self.text.s))]
           [] OTHER -> [raised |-> "ValueError", id |-> NoneVal]

\* _get_id with the default scheme in place of the ValueError of line 64
GetIdDefaultsUnknownScheme(self, id_hash_keys, uuid_type) ==
    IF uuid_type \notin {None, "uuid3", "uuid5"}
    THEN IF self.text.kind # "str"
         THEN [raised |-> "TypeError", id |-> NoneVal]
         ELSE [raised |-> "", id |-> Str(Format02x(Mmh3Hash128(self.text.s)))]
    ELSE IF self.text.kind # "str"
         THEN [raised |-> "TypeError", id |-> NoneVal]
         ELSE CASE uuid_type = None ->
                     [raised |-> "", id |-> Str(Format02x(Mmh3Hash128(self.text.s)))]
                [] uuid_type = "uuid3" ->
                     [raised |-> "", id |-> Str(UuidStr("3", self.text.s))]
                [] OTHER ->
                     [raised |-> "", id |-> Str(UuidStr("5", self.text.s))]

\* Document._get_id: a hash of self.text under the scheme uuid_type names;
\* id_hash_keys is not read. The scheme is looked at first; the hash
\* functions take a string only.
GetId(self, id_hash_keys, uuid_type) ==
    IF uuid_type \notin {None, "uuid3", "uuid5"}
    THEN [raised |-> "ValueError", id |-> NoneVal]
    ELSE IF self.text.kind # "str"
         THEN [raised |-> "TypeError", id |-> NoneVal]
         ELSE CASE uuid_type = None ->
                     [raised |-> "", id |-> Str(Format02x(Mmh3Hash128(self.text.s)))]
                [] uuid_type = "uuid3" ->
                     [raised |-> "", id |-> Str(UuidStr("3", self.text.s))]
                [] OTHER ->
                     [raised |-> "", id |-> Str(UuidStr("5", self.text.s))]

\* What a failed construction leaves in place of a Document.
NoDocument ==
    [text |-> NoneVal, score |-> NoneVal, probability |-> NoneVal,
     question |-> NoneVal, meta |-> NoneVal, embedding |-> NoneVal, id |-> NoneVal]

\* Document.__init__: the fields as given, meta or {}, and the id: str(id) if
\* one is given, else the derived one.
DocumentInit(text, id, score, probability, question, meta, embedding, id_hash_keys, uuid_type) ==
    LET self == [text |-> text, score |-> score, probability |-> probability,
                 question |-> question,
                 meta |-> IF Truthy(meta) THEN meta ELSE DictVal(<<>>),
                 embedding |-> embedding, id |-> NoneVal]
    IN  IF id.kind = "none"
        THEN LET g == GetId(self, id_hash_keys, uuid_type)
             IN  IF g.raised # ""
                 THEN [raised |-> g.raised, doc |-> NoDocument]
                 ELSE [raised |-> "", doc |-> [self EXCEPT !.id = g.id]]
        ELSE [raised |-> "", doc |-> [self EXCEPT !.id = PyStr(id)]]

\* Document(text, id=id): the other arguments at their defaults.
Doc(text, id) ==
    DocumentInit(Str(text), id, NoneVal, NoneVal, NoneVal, NoneVal, NoneVal,
                 None, None).doc

(***************************************************************************)
(*                             BaseDocStore                                *)
(***************************************************************************)
\* self.index, the default index of the store
SelfIndex == "document"

\* the values of the index argument
IndexArgs == Indexes \cup {None}

\* the values of the duplicate_documents argument: the three policies, the
\* default of _handle_duplicate_documents, and a misspelt policy
Policies == {"skip", "overwrite", "fail", None, "skpi"}

\* the ids and the texts of the Documents written to the store
StoreIds == {<<"x">>, <<"y">>}
StoreTexts == {<<"a">>, <<"b">>}
StoreDocs == {Doc(t, Str(i)) : t \in StoreTexts, i \in StoreIds}

\* longest list of documents of one write
MaxBatch == 3

Batches == Seqs(StoreDocs, MaxBatch)

\* The names store.py binds at module level: its imports (lines 1-8) and its
\* classes.
ModuleNames ==
    {"uuid", "abstractmethod", "deepcopy", "Any", "Dict", "List", "Optional",
     "Union", "uuid4", "mmh3", "np", "Document", "Label", "BaseDocStore"}

\* raise name(message) in store.py: the name is looked up before the message
\* is built, and an unbound name raises NameError with a message of its own.
RaiseNamed(name, ids, index) ==
    IF name \in ModuleNames
    THEN [raised |-> name, ids |-> ids, index |-> index]
    ELSE [raised |-> "NameError", ids |-> <<>>, index |-> None]

\* [doc.id for doc in documents]
IdsOf(documents) == [i \in 1..Len(documents) |-> documents[i].id]

\* _drop_duplicate_documents: the first Document of each id, in input order.
RECURSIVE DropDuplicateDocuments(_)
DropDuplicateDocuments(documents) ==
    IF Len(documents) = 0
    THEN <<>>
    ELSE LET front == DropDuplicateDocuments(SubSeq(documents, 1, Len(documents) - 1))
             last == documents[Len(documents)]
         IN  IF \E i \in 1..Len(front) : front[i].id = last.id
             THEN front
             ELSE Append(front, last)

\* get_documents_by_id: the Documents of the index whose id is among ids, in
\* the order of ids; an id the index does not hold is left out.
GetDocumentsById(st, ids, index) ==
    LET Exists(i) == \E d \in st[index] : d.id = i
        found == SelectSeq(ids, Exists)
    IN  [n \in 1..Len(found) |-> CHOOSE d \in st[index] : d.id = found[n]]

\* The backend's write: each Document replaces the one of its id, in order.
RECURSIVE BackendWrite(_, _)
BackendWrite(held, documents) ==
    IF Len(documents) = 0
    THEN held
    ELSE BackendWrite({d \in held : d.id # Head(documents).id} \cup {Head(documents)},
                      Tail(documents))

\* index or self.index
IndexOr(index) == IF index = None \/ index = "" THEN SelfIndex ELSE index

\* _handle_duplicate_documents without the in-batch deduplication.
HandleDuplicateDocumentsNoBatchDedup(st, documents, index, duplicate_documents) ==
    LET idx == IndexOr(index)
    IN  IF duplicate_documents \in {"skip", "fail"}
        THEN LET deduped == documents
                 documents_found == GetDocumentsById(st, IdsOf(deduped), idx)
                 ids_exist_in_db == IdsOf(documents_found)
                 NotInDb(doc) == \A i \in 1..Len(ids_exist_in_db) : ids_exist_in_db[i] # doc.id
             IN  IF Len(ids_exist_in_db) > 0 /\ duplicate_documents = "fail"
                 THEN RaiseNamed("DuplicateDocumentError", ids_exist_in_db, idx)
                      @@ [documents |-> <<>>, looked_up |-> TRUE, deduped |-> deduped]
                 ELSE [raised |-> "", ids |-> <<>>, index |-> idx,
                       documents |-> SelectSeq(deduped, NotInDb),
                       looked_up |-> TRUE, deduped |-> deduped]
        ELSE [raised |-> "", ids |-> <<>>, index |-> idx, documents |-> documents,
              looked_up |-> FALSE, deduped |-> documents]

\* _handle_duplicate_documents without the filter of line 317.
HandleDuplicateDocumentsNoFilter(st, documents, index, duplicate_documents) ==
    LET idx == IndexOr(index)
    IN  IF duplicate_documents \in {"skip", "fail"}
        THEN LET deduped == DropDuplicateDocuments(documents)
                 documents_found == GetDocumentsById(st, IdsOf(deduped), idx)
                 ids_exist_in_db == IdsOf(documents_found)
             IN  IF Len(ids_exist_in_db) > 0 /\ duplicate_documents = "fail"
                 THEN RaiseNamed("DuplicateDocumentError", ids_exist_in_db, idx)
                      @@ [documents |-> <<>>, looked_up |-> TRUE, deduped |-> deduped]
                 ELSE [raised |-> "", ids |-> <<>>, index |-> idx,
                       documents |-> deduped,
                       looked_up |-> TRUE, deduped |-> deduped]
        ELSE [raised |-> "", ids |-> <<>>, index |-> idx, documents |-> documents,
              looked_up |-> FALSE, deduped |-> documents]

\* _handle_duplicate_documents that treats 'overwrite' as it treats 'skip'.
HandleDuplicateDocumentsOverwriteDedups(st, documents, index, duplicate_documents) ==
    LET idx == IndexOr(index)
    IN  IF duplicate_documents \in {"skip", "fail", "overwrite"}
        THEN LET deduped == DropDuplicateDocuments(documents)
                 documents_found == GetDocumentsById(st, IdsOf(deduped), idx)
                 ids_exist_in_db == IdsOf(documents_found)
                 NotInDb(doc) == \A i \in 1..Len(ids_exist_in_db) : ids_exist_in_db[i] # doc.id
             IN  IF Len(ids_exist_in_db) > 0 /\ duplicate_documents = "fail"
                 THEN RaiseNamed("DuplicateDocumentError", ids_exist_in_db, idx)
                      @@ [documents |-> <<>>, looked_up |-> TRUE, deduped |-> deduped]
                 ELSE [raised |-> "", ids |-> <<>>, index |-> idx,
                       documents |-> SelectSeq(deduped, NotInDb),
                       looked_up |-> TRUE, deduped |-> deduped]
        ELSE [raised |-> "", ids |-> <<>>, index |-> idx, documents |-> documents,
              looked_up |-> FALSE, deduped |-> documents]

\* _handle_duplicate_documents with the filter of line 315 the wrong way round:
\* it keeps the Documents whose ids the lookup found.
HandleDuplicateDocumentsInvertedFilter(st, documents, index, duplicate_documents) ==
    LET idx == IndexOr(index)
    IN  IF duplicate_documents \in {"skip", "fail"}
        THEN LET deduped == DropDuplicateDocuments(documents)
                 documents_found == GetDocumentsById(st, IdsOf(deduped), idx)
                 ids_exist_in_db == IdsOf(documents_found)
                 InDb(doc) == \E i \in 1..Len(ids_exist_in_db) : ids_exist_in_db[i] = doc.id
             IN  IF Len(ids_exist_in_db) > 0 /\ duplicate_documents = "fail"
                 THEN RaiseNamed("DuplicateDocumentError", ids_exist_in_db, idx)
                      @@ [documents |-> <<>>, looked_up |-> TRUE, deduped |-> deduped]
                 ELSE [raised |-> "", ids |-> <<>>, index |-> idx,
                       documents |-> SelectSeq(deduped, InDb),
                       looked_up |-> TRUE, deduped |-> deduped]
        ELSE [raised |-> "", ids |-> <<>>, index |-> idx, documents |-> documents,
              looked_up |-> FALSE, deduped |-> documents]

\* _handle_duplicate_documents that rejects a policy it does not know
HandleDuplicateDocumentsRejectsUnknown(st, documents, index, duplicate_documents) ==
    LET idx == IndexOr(index)
    IN  IF duplicate_documents \in {"skip", "fail"}
        THEN LET deduped == DropDuplicateDocuments(documents)
                 documents_found == GetDocumentsById(st, IdsOf(deduped), idx)
                 ids_exist_in_db == IdsOf(documents_found)
                 NotInDb(doc) == \A i \in 1..Len(ids_exist_in_db) : ids_exist_in_db[i] # doc.id
             IN  IF Len(ids_exist_in_db) > 0 /\ duplicate_documents = "fail"
                 THEN RaiseNamed("DuplicateDocumentError", ids_exist_in_db, idx)
                      @@ [documents |-> <<>>, looked_up |-> TRUE, deduped |-> deduped]
                 ELSE [raised |-> "", ids |-> <<>>, index |-> idx,
                       documents |-> SelectSeq(deduped, NotInDb),
                       looked_up |-> TRUE, deduped |-> deduped]
        ELSE IF duplicate_documents = "overwrite"
             THEN [raised |-> "", ids |-> <<>>, index |-> idx, documents |-> documents,
                   looked_up |-> FALSE, deduped |-> documents]
             ELSE [raised |-> "ValueError", ids |-> <<>>, index |-> idx,
                   documents |-> <<>>, looked_up |-> FALSE, deduped |-> documents]

\* BaseDocStore._handle_duplicate_documents. The result holds what the call
\* raised ("" if nothing) with the ids and the index its message names, the
\* list it returned, whether it looked ids up, and the list after line 308.
HandleDuplicateDocuments(st, documents, index, duplicate_documents) ==
    LET idx == IndexOr(index)
    IN  IF duplicate_documents \in {"skip", "fail"}
        THEN LET deduped == DropDuplicateDocuments(documents)
                 documents_found == GetDocumentsById(st, IdsOf(deduped), idx)
                 ids_exist_in_db == IdsOf(documents_found)
                 NotInDb(doc) == \A i \in 1..Len(ids_exist_in_db) : ids_exist_in_db[i] # doc.id
             IN  IF Len(ids_exist_in_db) > 0 /\ duplicate_documents = "fail"
                 THEN RaiseNamed("DuplicateDocumentError", ids_exist_in_db, idx)
                      @@ [documents |-> <<>>, looked_up |-> TRUE, deduped |-> deduped]
                 ELSE [raised |-> "", ids |-> <<>>, index |-> idx,
                       documents |-> SelectSeq(deduped, NotInDb),
                       looked_up |-> TRUE, deduped |-> deduped]
        ELSE [raised |-> "", ids |-> <<>>, index |-> idx, documents |-> documents,
              looked_up |-> FALSE, deduped |-> documents]

InitStore ==
    /\ store = [i \in Indexes |-> {}]
    /\ wcall = NoWrite
    /\ IterIdle /\ IdIdle /\ SerialIdle /\ RaceIdle /\ CallsIdle /\ LabelIdle /\ BotIdle

\* write_documents(documents, index, duplicate_documents): the duplicates are
\* handled, then what is left is handed to the backend; an error raised on
\* the way leaves before the backend is called.
WriteDocuments ==
    /\ wcall.op = "idle"
    /\ \E documents \in Batches, index \in IndexArgs, duplicate_documents \in Policies :
         LET r == HandleDuplicateDocuments(store, documents, index, duplicate_documents)
             target == IndexOr(index)
         IN  /\ store' = IF r.raised # ""
                         THEN store
                         ELSE [store EXCEPT ![target] = BackendWrite(@, r.documents)]
             /\ wcall' = [op |-> "write", documents |-> documents, index |-> index,
                          duplicate_documents |-> duplicate_documents,
                          target |-> target, pre |-> store, raised |-> r.raised,
                          ids |-> r.ids, named_index |-> r.index,
                          deduped |-> r.deduped, looked_up |-> r.looked_up,
                          written |-> (r.raised = ""), handed |-> r.documents,
                          again |-> FALSE, before_first |-> store]
    /\ UNCHANGED <<iterVars, idVars, serialVars, raceVars, callsVars, labelVars, botVars>>

\* The caller repeats the 'skip' write that just returned, with the same
\* documents and the same index: a retry.
WriteAgain ==
    /\ wcall.op = "write"
    /\ ~wcall.again
    /\ wcall.duplicate_documents = "skip"
    /\ LET r == HandleDuplicateDocuments(store, wcall.documents, wcall.index, wcall.duplicate_documents)
       IN  /\ store' = IF r.raised # ""
                       THEN store
                       ELSE [store EXCEPT ![wcall.target] = BackendWrite(@, r.documents)]
           /\ wcall' = [wcall EXCEPT !.pre = store, !.raised = r.raised, !.ids = r.ids,
                                     !.named_index = r.index, !.deduped = r.deduped,
                                     !.looked_up = r.looked_up,
                                     !.written = (r.raised = ""),
                                     !.handed = r.documents, !.again = TRUE]
    /\ UNCHANGED <<iterVars, idVars, serialVars, raceVars, callsVars, labelVars, botVars>>

\* The caller takes the result of the call.
WriteReturns ==
    /\ wcall.op = "write"
    /\ wcall' = NoWrite
    /\ UNCHANGED <<store, iterVars, idVars, serialVars, raceVars, callsVars, labelVars, botVars>>

NextStore == WriteDocuments \/ WriteAgain \/ WriteReturns

SpecStore == InitStore /\ [][NextStore]_vars

(***************************************************************************)
(*                   Properties of the duplicate handling                  *)
(***************************************************************************)
\* the ids of a list or of a set of Documents
IdSet(documents) == {documents[i].id : i \in 1..Len(documents)}
HeldIds(held) == {d.id : d \in held}
\* the Documents of a list, as a set
IdSetDocs(documents) == {documents[i] : i \in 1..Len(documents)}

\* where the first Document with id x stands in the batch
FirstIndex(batch, x) ==
    CHOOSE i \in 1..Len(batch) :
        batch[i].id = x /\ \A j \in 1..(i - 1) : batch[j].id # x

\* how many Documents of the batch have id x
Occurrences(batch, x) == Cardinality({i \in 1..Len(batch) : batch[i].id = x})

\* sub holds first occurrences of the batch only, in the order of the batch
FirstsInInputOrder(sub, batch) ==
    /\ \A i \in 1..Len(sub) :
         /\ sub[i].id \in IdSet(batch)
         /\ sub[i] = batch[FirstIndex(batch, sub[i].id)]
    /\ \A i, j \in 1..Len(sub) :
         i < j => FirstIndex(batch, sub[i].id) < FirstIndex(batch, sub[j].id)

\* C1: under 'skip', if the index holds no Document with id X and the batch
\* holds two or more, then after the write the index holds exactly one
\* Document with id X, the first of the batch, and the Documents that survive
\* the in-batch deduplication are first occurrences in input order, one per id.
SkipKeepsFirstOccurrence ==
    (wcall.op = "write" /\ wcall.duplicate_documents = "skip") =>
        \A x \in IdSet(wcall.documents) :
            (x \notin HeldIds(wcall.pre[wcall.target]) /\ Occurrences(wcall.documents, x) >= 2) =>
                /\ wcall.raised = ""
                /\ Cardinality({d \in store[wcall.target] : d.id = x}) = 1
                /\ wcall.documents[FirstIndex(wcall.documents, x)] \in store[wcall.target]
                /\ FirstsInInputOrder(wcall.deduped, wcall.documents)
                /\ IdSet(wcall.deduped) = IdSet(wcall.documents)
                /\ FirstsInInputOrder(wcall.handed, wcall.documents)

\* C1's case: a batch X, Y, X with two contents for X, written to an index
\* that holds no X.
SkipKeepsFirstOccurrenceWitness ==
    /\ wcall.op = "write"
    /\ wcall.duplicate_documents = "skip"
    /\ Len(wcall.documents) = 3
    /\ wcall.documents[1].id = wcall.documents[3].id
    /\ wcall.documents[1] # wcall.documents[3]
    /\ wcall.documents[2].id # wcall.documents[1].id
    /\ wcall.documents[1].id \notin HeldIds(wcall.pre[wcall.target])
    /\ wcall.documents[1] \in store[wcall.target]
    /\ Len(wcall.handed) = 2

\* C2: under 'fail', if an id of the batch is held by the target index, the
\* write raises DuplicateDocumentError, the error names every colliding id and
\* the index, and the store is as it was before the call.
FailRaisesDuplicateDocumentError ==
    (wcall.op = "write" /\ wcall.duplicate_documents = "fail") =>
        LET colliding == IdSet(wcall.documents) \cap HeldIds(wcall.pre[wcall.target])
        IN  colliding # {} =>
                /\ wcall.raised = "DuplicateDocumentError"
                /\ {wcall.ids[i] : i \in 1..Len(wcall.ids)} = colliding
                /\ wcall.named_index = wcall.target
                /\ store = wcall.pre
                /\ ~wcall.written

\* C3: under 'skip', a Document of the batch whose id the target index holds
\* leaves the stored Document of that id as it was, nothing is raised, and the
\* backend is handed the deduplicated batch less the ids the lookup found.
SkipLeavesExistingAlone ==
    (wcall.op = "write" /\ wcall.duplicate_documents = "skip") =>
        LET held == wcall.pre[wcall.target]
            batch == wcall.documents
        IN  /\ wcall.raised = ""
            /\ wcall.looked_up
            /\ \A x \in IdSet(batch) \cap HeldIds(held) :
                 {d \in store[wcall.target] : d.id = x} = {d \in held : d.id = x}
            /\ IdSet(wcall.handed) = IdSet(batch) \ HeldIds(held)
            /\ Len(wcall.handed) = Cardinality(IdSet(wcall.handed))
            /\ \A i \in 1..Len(wcall.handed) :
                 wcall.handed[i] = batch[FirstIndex(batch, wcall.handed[i].id)]

\* C3's case: the batch brings another content for an id the index holds, and
\* a Document of a new id besides.
SkipLeavesExistingAloneWitness ==
    /\ wcall.op = "write"
    /\ wcall.duplicate_documents = "skip"
    /\ Len(wcall.handed) = 1
    /\ \E i \in 1..Len(wcall.documents) :
         /\ wcall.documents[i].id \in HeldIds(wcall.pre[wcall.target])
         /\ wcall.documents[i] \notin wcall.pre[wcall.target]
         /\ wcall.documents[i] \notin store[wcall.target]

\* C4: under 'overwrite', the backend is handed the input list as it is, no
\* id is looked up, and every id of the batch the index held now holds a
\* Document of the batch.
OverwritePassesBatchInFull ==
    (wcall.op = "write" /\ wcall.duplicate_documents = "overwrite") =>
        /\ wcall.raised = ""
        /\ wcall.handed = wcall.documents
        /\ ~wcall.looked_up
        /\ \A x \in IdSet(wcall.documents) \cap HeldIds(wcall.pre[wcall.target]) :
             \A d \in store[wcall.target] :
                 d.id = x => \E i \in 1..Len(wcall.documents) : wcall.documents[i] = d

\* C4's case: a batch with an id twice, whose contents for an id the index
\* holds are all new.
OverwritePassesBatchInFullWitness ==
    /\ wcall.op = "write"
    /\ wcall.duplicate_documents = "overwrite"
    /\ Len(wcall.documents) = 3
    /\ Cardinality(IdSet(wcall.documents)) = 2
    /\ \E x \in IdSet(wcall.documents) \cap HeldIds(wcall.pre[wcall.target]) :
         /\ \A d \in wcall.pre[wcall.target] : d.id = x => d \notin store[wcall.target]
         /\ Occurrences(wcall.documents, x) = 1

\* C18: when duplicate_documents is not given, the list handed to the backend
\* is the one 'skip' gives: no id twice in it, and no id the target index
\* holds.
DefaultPolicyIsSkip ==
    (wcall.op = "write" /\ wcall.duplicate_documents = None) =>
        /\ wcall.raised = ""
        /\ Len(wcall.handed) = Cardinality(IdSet(wcall.handed))
        /\ IdSet(wcall.handed) \cap HeldIds(wcall.pre[wcall.target]) = {}
        /\ wcall.handed = HandleDuplicateDocuments(wcall.pre, wcall.documents, wcall.index, "skip").documents

\* C20: a 'skip' write repeated with the same documents and index leaves the
\* store as the first write left it, raises nothing, and hands the backend
\* an empty list.
SkipWriteIdempotent ==
    (wcall.op = "write" /\ wcall.again) =>
        /\ wcall.raised = ""
        /\ wcall.handed = <<>>
        /\ store = wcall.pre

\* C20's case: the first write stored two Documents of new ids, one of them
\* twice in the batch, and the write was repeated.
SkipWriteIdempotentWitness ==
    /\ wcall.op = "write"
    /\ wcall.again
    /\ Len(wcall.documents) = 3
    /\ Cardinality(IdSet(wcall.documents)) = 2
    /\ IdSet(wcall.documents) \cap HeldIds(wcall.before_first[wcall.target]) = {}
    /\ wcall.before_first # store
    /\ wcall.documents[1] \in store[wcall.target]
    /\ wcall.handed = <<>>

MaxTextLen == 2

\* the texts, over two characters
Texts == Seqs({"a", "b"}, MaxTextLen)

\* the id argument: not given, or given
IdArgs == {NoneVal, Str(<<"x">>)}

\* the arguments that are not the text, the id or the scheme: all left out;
\* score, meta and embedding given; id_hash_keys given, with one list of
\* strings or another
RestArgs ==
    { [score |-> NoneVal, meta |-> NoneVal, embedding |-> NoneVal, id_hash_keys |-> NoneVal],
      [score |-> Num(<<"0", ".", "5">>), meta |-> DictVal(<<[k |-> "k", v |-> Str(<<"v">>)]>>),
       embedding |-> Vec(<<"1">>), id_hash_keys |-> NoneVal],
      [score |-> NoneVal, meta |-> NoneVal, embedding |-> NoneVal, id_hash_keys |-> Vec(<<"k">>)],
      [score |-> NoneVal, meta |-> NoneVal, embedding |-> NoneVal, id_hash_keys |-> Vec(<<"v">>)] }

\* the uuid_type argument: the three schemes and one that is none of them
UuidTypes == {None, "uuid3", "uuid5", "uuid4"}

\* the string hash seeds a process may start with
Seeds == {0, 1}

\* Document(text, id, score=..., meta=..., embedding=..., id_hash_keys=...,
\* uuid_type=...) in a process whose hash seed is hashseed.
Construct(text, id, rest, uuid_type) ==
    LET r == DocumentInit(Str(text), id, rest.score, NoneVal, NoneVal, rest.meta,
                          rest.embedding, rest.id_hash_keys, uuid_type)
    IN  [built |-> TRUE, text |-> text, id |-> id, rest |-> rest,
         uuid_type |-> uuid_type, seed |-> hashseed,
         raised |-> r.raised, doc |-> r.doc]

InitId ==
    /\ hashseed \in Seeds
    /\ docA = NotBuilt
    /\ docB = NotBuilt
    /\ IterIdle /\ StoreIdle /\ SerialIdle /\ RaceIdle /\ CallsIdle /\ LabelIdle /\ BotIdle

\* A first Document is constructed.
ConstructFirst ==
    /\ ~docA.built
    /\ \E text \in Texts, id \in IdArgs, rest \in RestArgs, uuid_type \in UuidTypes :
         docA' = Construct(text, id, rest, uuid_type)
    /\ UNCHANGED <<hashseed, docB, iterVars, storeVars, serialVars, raceVars, callsVars, labelVars, botVars>>

\* A second Document is constructed.
ConstructSecond ==
    /\ docA.built /\ ~docB.built
    /\ \E text \in Texts, id \in IdArgs, rest \in RestArgs, uuid_type \in UuidTypes :
         docB' = Construct(text, id, rest, uuid_type)
    /\ UNCHANGED <<hashseed, docA, iterVars, storeVars, serialVars, raceVars, callsVars, labelVars, botVars>>

\* The process ends and another starts, with a hash seed of its own; the
\* Document constructed so far was kept (stored, or sent).
Restart ==
    /\ ~docB.built
    /\ \E seed \in Seeds \ {hashseed} : hashseed' = seed
    /\ UNCHANGED <<docA, docB, iterVars, storeVars, serialVars, raceVars, callsVars, labelVars, botVars>>

\* Both Documents are dropped.
Discard ==
    /\ docB.built
    /\ docA' = NotBuilt
    /\ docB' = NotBuilt
    /\ UNCHANGED <<hashseed, iterVars, storeVars, serialVars, raceVars, callsVars, labelVars, botVars>>

NextId == ConstructFirst \/ ConstructSecond \/ Restart \/ Discard

SpecId == InitId /\ [][NextId]_vars

IdHashKeysSelectIdentity ==
    (/\ docA.built /\ docB.built
     /\ docA.raised = "" /\ docB.raised = ""
     /\ docA.id.kind = "none" /\ docB.id.kind = "none"
     /\ docA.text = docB.text
     /\ docA.uuid_type = docB.uuid_type
     /\ docA.rest.id_hash_keys.kind # "none"
     /\ docB.rest.id_hash_keys.kind # "none"
     /\ docA.rest.id_hash_keys # docB.rest.id_hash_keys) =>
        docA.doc.id # docB.doc.id

(***************************************************************************)
(*                   Document.to_dict and Document.from_dict               *)
(***************************************************************************)
\* init_args of from_dict
InitArgs == {"text", "id", "score", "probability", "question", "meta", "embedding"}

\* the parameters of Document.__init__
InitParams == InitArgs \cup {"id_hash_keys", "uuid_type"}

\* self.__dict__.items(): the attributes in the order __init__ sets them
DictOf(self) ==
    <<[k |-> "text", v |-> self.text], [k |-> "score", v |-> self.score],
      [k |-> "probability", v |-> self.probability],
      [k |-> "question", v |-> self.question], [k |-> "meta", v |-> self.meta],
      [k |-> "embedding", v |-> self.embedding], [k |-> "id", v |-> self.id]>>

\* {v: k for k, v in field_map.items()}
RECURSIVE InvFieldMap(_)
InvFieldMap(field_map) ==
    IF Len(field_map) = 0
    THEN <<>>
    ELSE LET last == field_map[Len(field_map)]
         IN  Put(InvFieldMap(SubSeq(field_map, 1, Len(field_map) - 1)), last.v, last.k)

\* the loop of to_dict over the first n attributes
RECURSIVE ToDictLoop(_, _, _)
ToDictLoop(items, inv_field_map, n) ==
    IF n = 0
    THEN <<>>
    ELSE LET k == items[n].k
             renamed == IF HasKey(inv_field_map, k) THEN Get(inv_field_map, k) ELSE k
         IN  Put(ToDictLoop(items, inv_field_map, n - 1), renamed, items[n].v)

\* Document.to_dict
ToDict(self, field_map) ==
    ToDictLoop(DictOf(self), InvFieldMap(field_map), Len(DictOf(self)))

\* the first loop of from_dict over the first n items of _doc: the items to
\* copy into _doc["meta"]
RECURSIVE Additional(_, _, _)
Additional(_doc, field_map, n) ==
    IF n = 0
    THEN <<>>
    ELSE LET rest == Additional(_doc, field_map, n - 1)
         IN  IF _doc[n].k \notin InitArgs /\ ~HasKey(field_map, _doc[n].k)
             THEN Put(rest, _doc[n].k, _doc[n].v)
             ELSE rest

\* dict.update(extra)
RECURSIVE Update(_, _)
Update(d, extra) ==
    IF Len(extra) = 0
    THEN d
    ELSE Update(Put(d, Head(extra).k, Head(extra).v), Tail(extra))

\* the second loop of from_dict over the first n items of _doc
RECURSIVE NewDoc(_, _, _)
NewDoc(_doc, field_map, n) ==
    IF n = 0
    THEN <<>>
    ELSE LET rest == NewDoc(_doc, field_map, n - 1)
             k == _doc[n].k
         IN  IF k \in InitArgs
             THEN Put(rest, k, _doc[n].v)
             ELSE IF HasKey(field_map, k)
                  THEN Put(rest, Get(field_map, k), _doc[n].v)
                  ELSE rest

\* the uuid_type a keyword argument names: no string of the model spells
\* "uuid3" or "uuid5"
UuidTypeOf(v) == IF v.kind = "none" THEN None ELSE "unrecognized"

\* cls(**_new_doc), with uuid_type added to the keywords when it is truthy
CallDocument(_new_doc, uuid_type) ==
    LET Arg(k) == IF HasKey(_new_doc, k) THEN Get(_new_doc, k) ELSE NoneVal
        scheme == IF uuid_type # None /\ uuid_type # ""
                  THEN uuid_type
                  ELSE UuidTypeOf(Arg("uuid_type"))
    IN  IF Keys(_new_doc) \subseteq InitParams /\ HasKey(_new_doc, "text")
        THEN DocumentInit(Arg("text"), Arg("id"), Arg("score"), Arg("probability"),
                          Arg("question"), Arg("meta"), Arg("embedding"),
                          Arg("id_hash_keys"), scheme)
        ELSE [raised |-> "TypeError", doc |-> NoDocument]

\* Document.from_dict
FromDict(dict, field_map, uuid_type) ==
    LET with_meta == IF HasKey(dict, "meta") THEN dict ELSE Put(dict, "meta", DictVal(<<>>))
        additional == Additional(with_meta, field_map, Len(with_meta))
        meta == Get(with_meta, "meta")
    IN  IF Len(additional) > 0 /\ meta.kind # "dict"
        THEN [raised |-> "TypeError", doc |-> NoDocument]
        ELSE LET _doc == IF Len(additional) > 0
                         THEN Put(with_meta, "meta", DictVal(Update(meta.m, additional)))
                         ELSE with_meta
             IN  CallDocument(NewDoc(_doc, field_map, Len(_doc)), uuid_type)

\* most entries of a field map
MaxFieldMap == 2

\* the keys of the field maps: a name that is no field, and two field names
FieldMapKeys == {"title", "text", "id"}

\* the values of the field maps: three field names, and a name that is none
FieldMapValues == {"text", "meta", "id", "name"}

\* the field maps: dicts of at most MaxFieldMap entries, their keys distinct
FieldMaps ==
    {f \in Seqs([k : FieldMapKeys, v : FieldMapValues], MaxFieldMap) :
        \A i, j \in 1..Len(f) : i # j => f[i].k # f[j].k}

\* the Documents that are serialized
SerialDocs ==
    {DocumentInit(Str(text), id, rest.score, NoneVal, NoneVal, rest.meta,
                  rest.embedding, rest.id_hash_keys, None).doc :
        text \in {<<"a">>, <<"a", "b">>}, id \in IdArgs, rest \in RestArgs}

InitSerial ==
    /\ rt = NoRoundTrip
    /\ IterIdle /\ StoreIdle /\ IdIdle /\ RaceIdle /\ CallsIdle /\ LabelIdle /\ BotIdle

\* D.to_dict(F) is called for a Document D and a field map F.
CallToDict ==
    /\ rt.phase = "idle"
    /\ \E D \in SerialDocs, F \in FieldMaps :
         rt' = [phase |-> "dict", D |-> D, F |-> F, dict |-> ToDict(D, F),
                raised |-> "", back |-> NoDocument]
    /\ UNCHANGED <<iterVars, storeVars, idVars, raceVars, callsVars, labelVars, botVars>>

\* Document.from_dict is called with the dict and the same field map.
CallFromDict ==
    /\ rt.phase = "dict"
    /\ LET r == FromDict(rt.dict, rt.F, None)
       IN  rt' = [rt EXCEPT !.phase = "back", !.raised = r.raised, !.back = r.doc]
    /\ UNCHANGED <<iterVars, storeVars, idVars, raceVars, callsVars, labelVars, botVars>>

\* The result is taken.
RoundTripDone ==
    /\ rt.phase = "back"
    /\ rt' = NoRoundTrip
    /\ UNCHANGED <<iterVars, storeVars, idVars, raceVars, callsVars, labelVars, botVars>>

\* most keys of a dict handed to from_dict
MaxDictLen == 4

\* the items of the dicts handed to from_dict: a text, a meta that is a dict
\* or None, and two keys that are no field, "title" and "name"
DictItems ==
    {[k |-> "text", v |-> Str(<<"a">>)],
     [k |-> "meta", v |-> DictVal(<<[k |-> "k", v |-> Str(<<"v">>)]>>)],
     [k |-> "meta", v |-> DictVal(<<[k |-> "name", v |-> Str(<<"k">>)]>>)],
     [k |-> "meta", v |-> NoneVal],
     [k |-> "title", v |-> Str(<<"v">>)],
     [k |-> "title", v |-> DictVal(<<[k |-> "y", v |-> Str(<<"x">>)]>>)],
     [k |-> "name", v |-> Str(<<"v">>)]}

\* the dicts handed to from_dict: at most MaxDictLen items, their keys distinct
SerialDicts ==
    {m \in Seqs(DictItems, MaxDictLen) :
        \A i, j \in 1..Len(m) : i # j => m[i].k # m[j].k}

\* Document.from_dict(M, F) is called on a dict M and a field map F.
CallFromDictOn ==
    /\ rt.phase = "idle"
    /\ \E M \in SerialDicts, F \in FieldMaps :
         LET r == FromDict(M, F, None)
         IN  rt' = [phase |-> "from_dict", D |-> NoDocument, F |-> F, dict |-> M,
                    raised |-> r.raised, back |-> r.doc]
    /\ UNCHANGED <<iterVars, storeVars, idVars, raceVars, callsVars, labelVars, botVars>>

\* The Document that from_dict made is taken.
FromDictDone ==
    /\ rt.phase = "from_dict"
    /\ rt' = NoRoundTrip
    /\ UNCHANGED <<iterVars, storeVars, idVars, raceVars, callsVars, labelVars, botVars>>

NextSerial == CallToDict \/ CallFromDict \/ RoundTripDone \/ CallFromDictOn \/ FromDictDone

SpecSerial == InitSerial /\ [][NextSerial]_vars

\* C10: for every Document D and every field map F, from_dict(to_dict(D, F), F)
\* raises nothing and equals D field by field.
RoundTripIsIdentity ==
    rt.phase = "back" =>
        /\ rt.raised = ""
        /\ rt.back = rt.D

\* The round trip is the identity for the field maps that rename no field to
\* the name of a field and that do not rename meta.
RoundTripIsIdentityForPlainMaps ==
    (/\ rt.phase = "back"
     /\ \A i \in 1..Len(rt.F) : rt.F[i].k \notin InitArgs /\ rt.F[i].v # "meta") =>
        /\ rt.raised = ""
        /\ rt.back = rt.D

(***************************************************************************)
(*        The hashing scheme of a construction (SpecScheme)                *)
(***************************************************************************)
\* the uuid_type argument: the schemes of UuidTypes and the empty string
SchemeArgs == UuidTypes \cup {""}

\* the id argument: not given, given, or given as the empty string
SchemeIdArgs == IdArgs \cup {Str(<<>>)}

\* one more item for d, unless the value is None
With(d, k, v) == IF v.kind = "none" THEN d ELSE Append(d, [k |-> k, v |-> v])

\* the dict that carries the arguments init_args names to from_dict
ArgsDict(text, id, rest) ==
    With(With(With(With(<<[k |-> "text", v |-> Str(text)]>>, "id", id),
                   "score", rest.score), "meta", rest.meta), "embedding", rest.embedding)

InitScheme ==
    /\ hashseed \in Seeds
    /\ docA = NotBuilt
    /\ docB = NotBuilt
    /\ IterIdle /\ StoreIdle /\ SerialIdle /\ RaceIdle /\ CallsIdle /\ LabelIdle /\ BotIdle

\* Document(text, id, ..., uuid_type=uuid_type)
ConstructDirect ==
    /\ ~docA.built
    /\ \E text \in Texts, id \in SchemeIdArgs, rest \in RestArgs, uuid_type \in SchemeArgs :
         docA' = Construct(text, id, rest, uuid_type) @@ [via |-> "init"]
    /\ UNCHANGED <<hashseed, docB, iterVars, storeVars, serialVars, raceVars, callsVars, labelVars, botVars>>

\* Document.from_dict({"text": text, ...}, uuid_type=uuid_type)
ConstructFromDict ==
    /\ ~docA.built
    /\ \E text \in Texts, id \in SchemeIdArgs, rest \in RestArgs, uuid_type \in SchemeArgs :
         LET r == FromDict(ArgsDict(text, id, rest), <<>>, uuid_type)
         IN  docA' = [built |-> TRUE, text |-> text, id |-> id, rest |-> rest,
                      uuid_type |-> uuid_type, seed |-> hashseed,
                      raised |-> r.raised, doc |-> r.doc, via |-> "from_dict"]
    /\ UNCHANGED <<hashseed, docB, iterVars, storeVars, serialVars, raceVars, callsVars, labelVars, botVars>>

\* The Document, or the error, is taken.
ConstructDone ==
    /\ docA.built
    /\ docA' = NotBuilt
    /\ UNCHANGED <<hashseed, docB, iterVars, storeVars, serialVars, raceVars, callsVars, labelVars, botVars>>

NextScheme == ConstructDirect \/ ConstructFromDict \/ ConstructDone

SpecScheme == InitScheme /\ [][NextScheme]_vars

\* the scheme the constructor is handed: from_dict passes a truthy one only
SchemeHanded ==
    IF docA.via = "from_dict" /\ docA.uuid_type = "" THEN None ELSE docA.uuid_type

\* C13 as stated: a construction, direct or through from_dict, that hands
\* the constructor a scheme that is none of unset, 'uuid3', 'uuid5' raises
\* ValueError and makes no Document, whatever the text, the id and the other
\* arguments.
UnknownSchemeAlwaysFails ==
    (docA.built /\ SchemeHanded \notin {None, "uuid3", "uuid5"}) =>
        /\ docA.raised = "ValueError"
        /\ docA.doc = NoDocument

\* C13, amended: the scheme is examined only when the id is derived. With no
\* id given, a scheme that reaches the constructor and is none of unset,
\* 'uuid3', 'uuid5' raises ValueError and makes no Document, whatever the
\* text and the other arguments; with an id given nothing is raised and the
\* Document has that id as a string, whatever the scheme.
UnknownSchemeFailsWhenIdDerived ==
    docA.built =>
        /\ (docA.id.kind = "none" /\ SchemeHanded \notin {None, "uuid3", "uuid5"}) =>
               /\ docA.raised = "ValueError"
               /\ docA.doc = NoDocument
        /\ (docA.id.kind = "none" /\ SchemeHanded \in {None, "uuid3", "uuid5"}) =>
               /\ docA.raised = ""
               /\ docA.doc.id.kind = "str"
        /\ docA.id.kind # "none" =>
               /\ docA.raised = ""
               /\ docA.doc.id = PyStr(docA.id)

\* C13's case: from_dict with scheme 'uuid4' on a dict with a text and a meta
\* but no id.
UnknownSchemeFailsWhenIdDerivedWitness ==
    /\ docA.built
    /\ docA.via = "from_dict"
    /\ docA.id.kind = "none"
    /\ docA.uuid_type = "uuid4"
    /\ docA.rest.meta.kind = "dict"
    /\ Len(docA.text) = 2
    /\ docA.raised = "ValueError"
    /\ docA.doc = NoDocument

\* the keys of M that are no recognized field and no key of F
Leftover(M, F) == {k \in Keys(M) : k \notin InitArgs /\ ~HasKey(F, k)}

\* C12: when from_dict(M, F) makes a Document, its meta holds every key of M
\* that is neither a recognized field nor a key of F, with M's value, and it
\* holds a recognized field or a key of F only if M's own meta held it.
FromDictFoldsLeftoverKeys ==
    (rt.phase = "from_dict" /\ rt.raised = "") =>
        LET M == rt.dict
            meta == rt.back.meta
            own == IF HasKey(M, "meta") /\ Get(M, "meta").kind = "dict"
                   THEN Keys(Get(M, "meta").m)
                   ELSE {}
        IN  /\ \A k \in Leftover(M, rt.F) :
                 /\ meta.kind = "dict"
                 /\ HasKey(meta.m, k)
                 /\ Get(meta.m, k) = Get(M, k)
            /\ \A k \in Keys(meta.m) : k \in InitArgs \/ HasKey(rt.F, k) => k \in own

(***************************************************************************)
(*             Two write_documents calls at the same time (SpecRace)       *)
(*                                                                         *)
(* _handle_duplicate_documents returns the list to write before anything   *)
(* is written, so the lookup of a call and its backend write are two       *)
(* steps, and the steps of two callers interleave.                         *)
(***************************************************************************)
\* the policies that look ids up before the write
RacePolicies == {"skip", "fail"}

\* longest batch of a racing writer
MaxRaceBatch == 1

RaceBatches == Seqs(StoreDocs, MaxRaceBatch)

InitRace ==
    /\ store = [i \in Indexes |-> {}]
    /\ wcall = NoWrite
    /\ race = [w \in Writers |-> NotCalled]
    /\ race_log = <<>>
    /\ IterIdle /\ IdIdle /\ SerialIdle /\ CallsIdle /\ LabelIdle /\ BotIdle

\* writer w calls write_documents(documents, index, duplicate_documents)
RaceCall(w) ==
    /\ race[w].pc = "idle"
    /\ \E documents \in RaceBatches, index \in IndexArgs, duplicate_documents \in RacePolicies :
         race' = [race EXCEPT ![w] = [pc |-> "called", documents |-> documents,
                                      index |-> index,
                                      duplicate_documents |-> duplicate_documents,
                                      raised |-> "", handed |-> <<>>]]
    /\ UNCHANGED <<race_log, storeVars, iterVars, idVars, serialVars, callsVars, labelVars, botVars>>

\* w's call runs _handle_duplicate_documents: it looks the ids up in the
\* store as it is now, and raises or keeps the list to hand to the backend.
RaceHandleDuplicates(w) ==
    /\ race[w].pc = "called"
    /\ LET r == HandleDuplicateDocuments(store, race[w].documents, race[w].index, race[w].duplicate_documents)
       IN  race' = [race EXCEPT ![w] = [@ EXCEPT !.pc = IF r.raised # "" THEN "done" ELSE "handled",
                                                 !.raised = r.raised,
                                                 !.handed = r.documents]]
    /\ race_log' = Append(race_log, [step |-> "lookup", w |-> w])
    /\ UNCHANGED <<storeVars, iterVars, idVars, serialVars, callsVars, labelVars, botVars>>

\* w's call hands the list it kept to the backend.
RaceBackendWrite(w) ==
    /\ race[w].pc = "handled"
    /\ store' = [store EXCEPT ![IndexOr(race[w].index)] = BackendWrite(@, race[w].handed)]
    /\ race' = [race EXCEPT ![w] = [@ EXCEPT !.pc = "done"]]
    /\ race_log' = Append(race_log, [step |-> "write", w |-> w])
    /\ UNCHANGED <<wcall, iterVars, idVars, serialVars, callsVars, labelVars, botVars>>

NextRace ==
    \E w \in Writers : RaceCall(w) \/ RaceHandleDuplicates(w) \/ RaceBackendWrite(w)

SpecRace == InitRace /\ [][NextRace]_vars

\* both calls looked the ids up before either wrote
LookupsBeforeWrites ==
    /\ Len(race_log) >= 2
    /\ race_log[1].step = "lookup"
    /\ race_log[2].step = "lookup"

\* both calls are over
BothDone == \A w \in Writers : race[w].pc = "done"

\* C11: when two calls under 'fail' or 'skip' carry the same id X, absent
\* from the index, and both look X up before either writes, then neither
\* raises, both hand X to the backend, and the index ends with one Document
\* of id X, the one the later write brought.
ConcurrentWritesRace ==
    (BothDone /\ LookupsBeforeWrites /\ IndexOr(race[1].index) = IndexOr(race[2].index)) =>
        \A x \in IdSet(race[1].documents) \cap IdSet(race[2].documents) :
            LET target == IndexOr(race[1].index)
                last == race_log[Len(race_log)].w
            IN  /\ \A w \in Writers : race[w].raised = "" /\ x \in IdSet(race[w].handed)
                /\ Len(race_log) = 4
                /\ {d \in store[target] : d.id = x} = {d \in IdSetDocs(race[last].handed) : d.id = x}
                /\ Cardinality({d \in store[target] : d.id = x}) = 1

\* C11's case: two 'fail' calls bring two contents for X; both lookups run
\* first, both writes follow, and the index holds the second content only.
ConcurrentWritesRaceWitness ==
    /\ BothDone
    /\ LookupsBeforeWrites
    /\ \A w \in Writers : race[w].duplicate_documents = "fail" /\ Len(race[w].documents) = 1
    /\ race[1].index = race[2].index
    /\ race[1].documents[1].id = race[2].documents[1].id
    /\ race[1].documents[1] # race[2].documents[1]
    /\ race_log[3] = [step |-> "write", w |-> 1]
    /\ race_log[4] = [step |-> "write", w |-> 2]
    /\ store[IndexOr(race[1].index)] = {race[2].documents[1]}

(***************************************************************************)
(*                           Label (SpecLabel)                             *)
(***************************************************************************)
\* the attributes __eq__ compares, in the order it compares them
EqFields ==
    <<"question", "answer", "is_correct_answer", "is_correct_document", "origin",
      "document_id", "offset_start_in_doc", "no_answer", "model_id", "created_at",
      "updated_at">>

\* the attributes of a Label
LabelFields == {EqFields[i] : i \in 1..Len(EqFields)} \cup {"id"}

\* the ids uuid4() may give
Uuid4s == {Str(<<"0">>), Str(<<"1">>)}

\* Label.__init__: the id is str(id) if id is truthy, a fresh uuid4 otherwise
\* (fresh is the one this call draws); the other arguments are kept as given.
LabelInit(args, fresh) ==
    [f \in LabelFields |-> IF f = "id"
                           THEN IF Truthy(args.id) THEN PyStr(args.id) ELSE fresh
                           ELSE args[f]]
    @@ [class |-> "Label"]

\* __eq__ that compares the id as well
LabelEqComparesId(self, other) ==
    /\ other.class = self.class
    /\ \A f \in LabelFields : other[f] = self[f]

\* Label.__eq__
LabelEq(self, other) ==
    /\ other.class = self.class
    /\ other.question = self.question
    /\ other.answer = self.answer
    /\ other.is_correct_answer = self.is_correct_answer
    /\ other.is_correct_document = self.is_correct_document
    /\ other.origin = self.origin
    /\ other.document_id = self.document_id
    /\ other.offset_start_in_doc = self.offset_start_in_doc
    /\ other.no_answer = self.no_answer
    /\ other.model_id = self.model_id
    /\ other.created_at = self.created_at
    /\ other.updated_at = self.updated_at

\* the string __hash__ hashes with the id appended
LabelHashInputWithId(self) ==
    self.question.s \o self.answer.s \o PyStr(self.is_correct_answer).s
    \o PyStr(self.is_correct_document).s \o PyStr(self.origin).s
    \o PyStr(self.document_id).s \o PyStr(self.offset_start_in_doc).s
    \o PyStr(self.no_answer).s \o PyStr(self.model_id).s \o self.id.s

\* the string Label.__hash__ hashes
LabelHashInput(self) ==
    self.question.s \o self.answer.s \o PyStr(self.is_correct_answer).s
    \o PyStr(self.is_correct_document).s \o PyStr(self.origin).s
    \o PyStr(self.document_id).s \o PyStr(self.offset_start_in_doc).s
    \o PyStr(self.no_answer).s \o PyStr(self.model_id).s

\* Label.__hash__
LabelHash(self) == BuiltinHash(LabelHashInput(self))

\* the arguments of a Label with every optional one left out
BaseArgs ==
    [question |-> Str(<<"a">>), answer |-> Str(<<"a">>),
     is_correct_answer |-> Bool(TRUE), is_correct_document |-> Bool(TRUE),
     origin |-> Str(<<"x">>), id |-> NoneVal, document_id |-> NoneVal,
     offset_start_in_doc |-> NoneVal, no_answer |-> NoneVal, model_id |-> NoneVal,
     created_at |-> NoneVal, updated_at |-> NoneVal]

\* another value for each argument
OtherArgs ==
    [question |-> Str(<<"b">>), answer |-> Str(<<"b">>),
     is_correct_answer |-> Bool(FALSE), is_correct_document |-> Bool(FALSE),
     origin |-> Str(<<"y">>), id |-> Str(<<"x">>), document_id |-> Str(<<"x">>),
     offset_start_in_doc |-> Num(<<"0">>), no_answer |-> Bool(TRUE),
     model_id |-> Num(<<"1">>), created_at |-> Str(<<"1">>),
     updated_at |-> Str(<<"2">>)]

\* most arguments of a Label that differ from BaseArgs, the id aside
MaxFlips == 1

\* the arguments Labels are constructed with
LabelArgs ==
    {[f \in LabelFields |-> IF f \in flips \/ (f = "id" /\ with_id) THEN OtherArgs[f] ELSE BaseArgs[f]] :
        flips \in {fs \in SUBSET (LabelFields \ {"id"}) : Cardinality(fs) <= MaxFlips},
        with_id \in BOOLEAN}

\* what Labels are compared with: a Label, or an object of another class
\* with the attributes of a Label
Classes == {"Label", "Other"}

InitLabel ==
    /\ labA = NotBuilt
    /\ labB = NotBuilt
    /\ hashseed \in Seeds
    /\ docA = NotBuilt
    /\ docB = NotBuilt
    /\ IterIdle /\ StoreIdle /\ SerialIdle /\ RaceIdle /\ CallsIdle /\ BotIdle

\* Label(**args)
LabelConstruct ==
    /\ ~labA.built
    /\ \E args \in LabelArgs, fresh \in Uuid4s :
         labA' = [built |-> TRUE, obj |-> LabelInit(args, fresh)]
    /\ UNCHANGED <<labB, iterVars, storeVars, idVars, serialVars, raceVars, callsVars, botVars>>

\* A second object is made: a Label, or an object of another class with the
\* same attributes.
OtherConstruct ==
    /\ labA.built /\ ~labB.built
    /\ \E args \in LabelArgs, fresh \in Uuid4s, class \in Classes :
         labB' = [built |-> TRUE, compared |-> FALSE,
                  obj |-> [LabelInit(args, fresh) EXCEPT !.class = class],
                  eq |-> FALSE, hashes |-> <<>>]
    /\ UNCHANGED <<labA, iterVars, storeVars, idVars, serialVars, raceVars, callsVars, botVars>>

\* labA == labB is evaluated, and hash() of both if both are Labels.
LabelCompare ==
    /\ labB.built /\ ~labB.compared
    /\ labB' = [labB EXCEPT !.compared = TRUE,
                            !.eq = LabelEq(labA.obj, labB.obj),
                            !.hashes = IF labB.obj.class = "Label"
                                       THEN <<LabelHash(labA.obj), LabelHash(labB.obj)>>
                                       ELSE <<>>]
    /\ UNCHANGED <<labA, iterVars, storeVars, idVars, serialVars, raceVars, callsVars, botVars>>

\* Both objects are dropped.
LabelDiscard ==
    /\ labB.built /\ labB.compared
    /\ labA' = NotBuilt
    /\ labB' = NotBuilt
    /\ UNCHANGED <<iterVars, storeVars, idVars, serialVars, raceVars, callsVars, botVars>>

NextLabel == LabelConstruct \/ OtherConstruct \/ LabelCompare \/ LabelDiscard

SpecLabel == InitLabel /\ [][NextLabel]_vars

\* the attributes, the id aside, in which the two objects differ
Differing == {f \in LabelFields \ {"id"} : labA.obj[f] # labB.obj[f]}

\* C15: a Label equals another object exactly when that object is a Label
\* and every attribute except the id is equal; the ids, given or generated,
\* play no part.
LabelEqualityIgnoresId ==
    (labB.built /\ labB.compared) =>
        (labB.eq <=> (labB.obj.class = "Label" /\ Differing = {}))

\* C15's case: two Labels with the same arguments, a timestamp among them,
\* one with the id given and one with a generated id, compare equal.
LabelEqualityIgnoresIdWitness ==
    /\ labB.built /\ labB.compared
    /\ labB.obj.class = "Label"
    /\ labA.obj.id = Str(<<"x">>)
    /\ labB.obj.id \in Uuid4s
    /\ labA.obj.created_at # NoneVal
    /\ Differing = {}
    /\ labB.eq

HashCoversEqFields ==
    (labB.built /\ labB.compared /\ labB.obj.class = "Label") =>
        (LabelHashInput(labA.obj) = LabelHashInput(labB.obj) <=> Differing = {})

(***************************************************************************)
(*        write_documents calls one after the other (SpecCalls)            *)
(***************************************************************************)
\* most calls of a sequence
MaxCalls == 3

InitCalls ==
    /\ store = [i \in Indexes |-> {}]
    /\ wcall = NoWrite
    /\ calls = <<>>
    /\ IterIdle /\ IdIdle /\ SerialIdle /\ RaceIdle /\ LabelIdle /\ BotIdle

\* One more call, after the one before it returned: write_documents([doc],
\* duplicate_documents=policy) on the default index, under 'skip' or 'fail'.
CallsWrite ==
    /\ Len(calls) < MaxCalls
    /\ \E doc \in StoreDocs, duplicate_documents \in RacePolicies :
         LET r == HandleDuplicateDocuments(store, <<doc>>, None, duplicate_documents)
         IN  /\ store' = IF r.raised # ""
                         THEN store
                         ELSE [store EXCEPT ![SelfIndex] = BackendWrite(@, r.documents)]
             /\ calls' = Append(calls, [doc |-> doc,
                                        duplicate_documents |-> duplicate_documents,
                                        raised |-> r.raised, handed |-> r.documents])
    /\ UNCHANGED <<wcall, iterVars, idVars, serialVars, raceVars, labelVars, botVars>>

NextCalls == CallsWrite

SpecCalls == InitCalls /\ [][NextCalls]_vars

\* the calls before the i-th that carried the id of the i-th
EarlierCalls(i) == {j \in 1..(i - 1) : calls[j].doc.id = calls[i].doc.id}

\* C19: in a sequence of calls made one after the other, the first call that
\* carries an id succeeds; a later 'fail' call that carries it raises
\* DuplicateDocumentError, a later 'skip' call raises nothing, and the index
\* holds for that id the Document of the first call, and no other.
SerializedWritesDedupExactly ==
    \A i \in 1..Len(calls) :
        /\ EarlierCalls(i) = {} =>
              /\ calls[i].raised = ""
              /\ calls[i].handed = <<calls[i].doc>>
        /\ (EarlierCalls(i) # {} /\ calls[i].duplicate_documents = "fail") =>
              calls[i].raised = "DuplicateDocumentError"
        /\ (EarlierCalls(i) # {} /\ calls[i].duplicate_documents = "skip") =>
              /\ calls[i].raised = ""
              /\ calls[i].handed = <<>>
        /\ EarlierCalls(i) = {} =>
              {d \in store[SelfIndex] : d.id = calls[i].doc.id} = {calls[i].doc}

(***************************************************************************)
(*                The bot's conversation (jam/tdk/rise.py)                 *)
(***************************************************************************)
\* The state of a chat is kept by the state machine of the bot library: an
\* update of a chat is handed to the listeners of the chat's state and to
\* those of ALL, machine.set(name) and TeleState.activate() make a state the
\* chat's state, and a chat that never talked to the bot is in DEFAULT.

\* the states rise.py registers, and the library's DEFAULT
BotStates == {"DEFAULT", "ASKED_NAME", "ASKED_LICENSE", "REJECTED_LICENSE",
              "ASKED_ENROLL", "READY_TO_PLAY", "CONFIRMED_ENROLL",
              "REJECTED_ENROLL", "CONFIRM_DATA"}

\* str.strip(): the white space at both ends is dropped
RECURSIVE LStrip(_)
LStrip(s) == IF Len(s) > 0 /\ Head(s) = " " THEN LStrip(Tail(s)) ELSE s

RECURSIVE RStrip(_)
RStrip(s) == IF Len(s) > 0 /\ s[Len(s)] = " " THEN RStrip(SubSeq(s, 1, Len(s) - 1)) ELSE s

Strip(s) == RStrip(LStrip(s))

\* str.lower(), on the letters of the model
LowerChar(c) == CASE c = "A" -> "a" [] c = "N" -> "n" [] OTHER -> c

Lower(s) == [i \in 1..Len(s) |-> LowerChar(s[i])]

\* top_k of retrieve_top_k, which fn_set_name leaves at its default
TopK == 5

\* the orders of the Documents of a set
Orders(D) == {q \in [1..Cardinality(D) -> D] : \A i, j \in 1..Cardinality(D) : i # j => q[i] # q[j]}

\* list(retriever.retrieve_top_k(index=..., query=...))[0][0]: the ranked list
\* of the query, at most top_k Documents of the index in an order the engine
\* chooses, or an error (no list for the query, the backend out of reach).
RetrieveTopK(st, index, top_k) ==
    {[raised |-> TRUE, response |-> <<>>]}
    \cup {[raised |-> FALSE, response |-> q] :
            q \in UNION {Orders(D) : D \in {E \in SUBSET st[index] : Cardinality(E) <= top_k}}}

\* the while loop of fn_set_name: status after the scan of response
RECURSIVE Scan(_, _, _, _)
Scan(response, pointer, status, user_id) ==
    IF status
    THEN status
    ELSE LET h == NIteratorHasNext(response, pointer)
         IN  IF h.result = "True"
             THEN LET r == NIteratorNext(response, h.self)
                  IN  Scan(response, r.self,
                           IF r.result.text = user_id.text THEN TRUE ELSE status, user_id)
             ELSE status

\* store.get_all_documents(index="initial")[0].meta: the configuration is read,
\* or the read fails (an empty index, the backend out of reach)
ConfigReads == {"read", "raised"}

\* what a handler returns when it ends without an answer
NoReply == "None"

\* start: the chat is asked for its name
start(current) == [state |-> "ASKED_NAME", reply |-> "tell_name", raised |-> FALSE]

\* cmd_cancel
cmd_cancel(current) ==
    [state |-> "DEFAULT",
     reply |-> IF current = "DEFAULT" THEN "nothing_to_cancel" ELSE "all_canceled",
     raised |-> FALSE]

\* fn_set_name: the name is looked up among the Documents retrieved from the
\* login index
fn_set_name(current, text, retrieved) ==
    LET username == Strip(text)
        user_id == FromDict(<<[k |-> "text", v |-> Str(Lower(username))]>>, <<>>, "uuid5")
    IN  IF user_id.raised # "" \/ retrieved.raised
        THEN [state |-> current, reply |-> NoReply, raised |-> TRUE]
        ELSE LET status == Scan(retrieved.response, NIteratorInit, FALSE, user_id.doc)
             IN  IF ~status
                 THEN [state |-> current, reply |-> "not_authorized", raised |-> FALSE]
                 ELSE [state |-> "ASKED_LICENSE", reply |-> "license", raised |-> FALSE]

\* fn_set_license that goes on to the enrollment whatever the choice is.
fn_set_license_any_choice(current, choice, config) ==
    IF config = "raised"
    THEN [state |-> "ASKED_ENROLL", reply |-> NoReply, raised |-> TRUE]
    ELSE [state |-> "ASKED_ENROLL", reply |-> "price", raised |-> FALSE]

\* fn_set_license: the state is set before the configuration is read
fn_set_license(current, choice, config) ==
    IF choice # "confirm_true"
    THEN [state |-> "REJECTED_LICENSE", reply |-> "license_needed", raised |-> FALSE]
    ELSE IF config = "raised"
         THEN [state |-> "ASKED_ENROLL", reply |-> NoReply, raised |-> TRUE]
         ELSE [state |-> "ASKED_ENROLL", reply |-> "price", raised |-> FALSE]

\* fn_set_rejected
fn_set_rejected(current, choice) ==
    IF choice = "confirm_true"
    THEN [state |-> "ASKED_LICENSE", reply |-> "license", raised |-> FALSE]
    ELSE [state |-> current, reply |-> NoReply, raised |-> FALSE]

\* fn_set_enroll: the configuration is read first
fn_set_enroll(current, choice, config) ==
    IF config = "raised"
    THEN [state |-> current, reply |-> NoReply, raised |-> TRUE]
    ELSE IF choice # "confirm_true"
         THEN [state |-> "READY_TO_PLAY", reply |-> "price", raised |-> FALSE]
         ELSE [state |-> current, reply |-> NoReply, raised |-> FALSE]

\* fn_set_ready_to_play: the configuration is read first
fn_set_ready_to_play(current, choice, config) ==
    IF config = "raised"
    THEN [state |-> current, reply |-> NoReply, raised |-> TRUE]
    ELSE IF choice = "confirm_true"
         THEN [state |-> "ASKED_ENROLL", reply |-> "price", raised |-> FALSE]
         ELSE [state |-> current, reply |-> NoReply, raised |-> FALSE]

\* the text of the two commands
CommandText(name) == IF name = "start" THEN <<"/", "s", "t", "a", "r", "t">>
                     ELSE <<"/", "c", "a", "n", "c", "e", "l">>

\* the text messages of the chats: a listed name, the same name as it may be
\* typed, and a name that is not listed
MessageTexts == {<<"a", "n">>, <<" ", "A", "n", " ">>, <<"b", "o">>}

\* the data of the callback queries: the two buttons, and the data of a
\* button of some other message
Choices == {"confirm_true", "confirm_false", "other"}

\* the Documents the login index may hold
LoginDocs == {Doc(<<"a", "n">>, Str(<<"x">>)), Doc(<<"A", "n">>, Str(<<"y">>)),
              Doc(CommandText("start"), Str(<<"k">>))}

\* some Document of the response holds the name, stripped and in lower case
Listed(text, retrieved) ==
    /\ ~retrieved.raised
    /\ \E i \in 1..Len(retrieved.response) :
         retrieved.response[i].text = Str(Lower(Strip(text)))

InitBot ==
    /\ chat = [c \in Chats |-> "DEFAULT"]
    /\ upd = NoUpdate
    /\ authorized = {}
    /\ accepted = {}
    /\ store \in {[i \in Indexes |-> IF i = "login" THEN L ELSE {}] : L \in SUBSET LoginDocs}
    /\ wcall = NoWrite
    /\ IterIdle /\ IdIdle /\ SerialIdle /\ RaceIdle /\ CallsIdle /\ LabelIdle

\* The update of chat c was handled by the handlers named, in that order.
Handled(c, kind, data, handlers, r, passed) ==
    /\ chat' = [chat EXCEPT ![c] = r.state]
    /\ upd' = [kind |-> kind, c |-> c, data |-> data, from |-> chat[c], to |-> r.state,
               handlers |-> handlers, passed |-> passed, raised |-> r.raised,
               reply |-> r.reply]
    /\ authorized' = IF passed THEN authorized \cup {c} ELSE authorized

\* A command of chat c. Its message is a text message too: in ASKED_NAME the
\* library may hand it to fn_set_name as well, before the command's handler
\* or after it.
Command(c, name) ==
    LET Handler(current) == IF name = "start" THEN start(current) ELSE cmd_cancel(current)
    IN
    /\ \/ Handled(c, "command", name, <<name>>, Handler(chat[c]), FALSE)
       \/ /\ chat[c] = "ASKED_NAME"
          /\ \E retrieved \in RetrieveTopK(store, "login", TopK) :
               LET text == CommandText(name)
                   first == fn_set_name(chat[c], text, retrieved)
                   cmd == Handler(chat[c])
                   last == fn_set_name(cmd.state, text, retrieved)
               IN  \/ Handled(c, "command", name, <<"fn_set_name", name>>,
                              Handler(first.state), Listed(text, retrieved))
                   \/ Handled(c, "command", name, <<name, "fn_set_name">>,
                              last, Listed(text, retrieved))
    /\ UNCHANGED <<accepted, iterVars, storeVars, idVars, serialVars, raceVars, callsVars, labelVars>>

\* /start, in every state
Start(c) == Command(c, "start")

\* /cancel, in every state
CmdCancel(c) == Command(c, "cancel")

\* a text message of a chat in ASKED_NAME
FnSetName(c) ==
    /\ chat[c] = "ASKED_NAME"
    /\ \E text \in MessageTexts, retrieved \in RetrieveTopK(store, "login", TopK) :
         Handled(c, "message", text, <<"fn_set_name">>,
                 fn_set_name(chat[c], text, retrieved), Listed(text, retrieved))
    /\ UNCHANGED <<accepted, iterVars, storeVars, idVars, serialVars, raceVars, callsVars, labelVars>>

\* a callback query of a chat in ASKED_LICENSE. The handler sets the state
\* and reads the configuration then: when the read fails, the state that was
\* set is kept or lost.
FnSetLicense(c) ==
    /\ chat[c] = "ASKED_LICENSE"
    /\ \E choice \in Choices, config \in ConfigReads, kept \in BOOLEAN :
         LET r == fn_set_license(chat[c], choice, config)
         IN  /\ Handled(c, "callback_query", choice, <<"fn_set_license">>,
                        IF r.raised /\ ~kept THEN [r EXCEPT !.state = chat[c]] ELSE r,
                        FALSE)
             /\ accepted' = IF choice = "confirm_true" THEN accepted \cup {c} ELSE accepted
    /\ UNCHANGED <<iterVars, storeVars, idVars, serialVars, raceVars, callsVars, labelVars>>

\* a callback query of a chat in REJECTED_LICENSE
FnSetRejected(c) ==
    /\ chat[c] = "REJECTED_LICENSE"
    /\ \E choice \in Choices :
         Handled(c, "callback_query", choice, <<"fn_set_rejected">>,
                 fn_set_rejected(chat[c], choice), FALSE)
    /\ UNCHANGED <<accepted, iterVars, storeVars, idVars, serialVars, raceVars, callsVars, labelVars>>

\* a callback query of a chat in ASKED_ENROLL
FnSetEnroll(c) ==
    /\ chat[c] = "ASKED_ENROLL"
    /\ \E choice \in Choices, config \in ConfigReads :
         Handled(c, "callback_query", choice, <<"fn_set_enroll">>,
                 fn_set_enroll(chat[c], choice, config), FALSE)
    /\ UNCHANGED <<accepted, iterVars, storeVars, idVars, serialVars, raceVars, callsVars, labelVars>>

\* a callback query of a chat in READY_TO_PLAY
FnSetReadyToPlay(c) ==
    /\ chat[c] = "READY_TO_PLAY"
    /\ \E choice \in Choices, config \in ConfigReads :
         Handled(c, "callback_query", choice, <<"fn_set_ready_to_play">>,
                 fn_set_ready_to_play(chat[c], choice, config), FALSE)
    /\ UNCHANGED <<accepted, iterVars, storeVars, idVars, serialVars, raceVars, callsVars, labelVars>>

\* an update no handler listens to in the state of the chat: a text message
\* outside ASKED_NAME, a callback query in DEFAULT or ASKED_NAME
NoListener(c) ==
    /\ \/ /\ chat[c] # "ASKED_NAME"
          /\ \E text \in MessageTexts :
               Handled(c, "message", text, <<>>,
                       [state |-> chat[c], reply |-> NoReply, raised |-> FALSE], FALSE)
       \/ /\ chat[c] \in {"DEFAULT", "ASKED_NAME"}
          /\ \E choice \in Choices :
               Handled(c, "callback_query", choice, <<>>,
                       [state |-> chat[c], reply |-> NoReply, raised |-> FALSE], FALSE)
    /\ UNCHANGED <<accepted, iterVars, storeVars, idVars, serialVars, raceVars, callsVars, labelVars>>

NextBot ==
    \E c \in Chats :
        \/ Start(c)
        \/ CmdCancel(c)
        \/ FnSetName(c)
        \/ FnSetLicense(c)
        \/ FnSetRejected(c)
        \/ FnSetEnroll(c)
        \/ FnSetReadyToPlay(c)
        \/ NoListener(c)

SpecBot == InitBot /\ [][NextBot]_vars

\* the states of the enrollment
Enrolling == {"ASKED_ENROLL", "READY_TO_PLAY"}

\* the handler named handled the last update
Ran(handler) == \E i \in 1..Len(upd.handlers) : upd.handlers[i] = handler

\* the last update was 'confirm_true', handled in ASKED_LICENSE
LicenseAccepted ==
    /\ upd.kind = "callback_query" /\ upd.data = "confirm_true"
    /\ upd.from = "ASKED_LICENSE" /\ Ran("fn_set_license")

\* C23: a chat is in ASKED_ENROLL or READY_TO_PLAY only after its callback
\* 'confirm_true' was handled in ASKED_LICENSE, and in ASKED_LICENSE only
\* after a name of it, handled in ASKED_NAME, passed the lookup: an update
\* takes a chat into the enrollment only as an accepted license, takes it to
\* ASKED_LICENSE only as a name that passed or as 'confirm_true' in
\* REJECTED_LICENSE, and a name that is not listed or a declined license
\* takes no chat to ASKED_ENROLL.
EnrollOnlyAfterLicense ==
    /\ \A c \in Chats :
         /\ chat[c] \in Enrolling => c \in accepted
         /\ chat[c] \in Enrolling \cup {"ASKED_LICENSE", "REJECTED_LICENSE"} => c \in authorized
    /\ upd.kind # "none" =>
         /\ chat[upd.c] = upd.to
         /\ upd.to \in Enrolling /\ upd.from \notin Enrolling => LicenseAccepted
         /\ upd.to = "ASKED_LICENSE" /\ upd.from # "ASKED_LICENSE" =>
              \/ upd.from = "ASKED_NAME" /\ Ran("fn_set_name") /\ upd.passed
              \/ /\ upd.from = "REJECTED_LICENSE" /\ upd.kind = "callback_query"
                 /\ upd.data = "confirm_true"
         /\ Ran("fn_set_name") /\ ~upd.passed => upd.to \notin Enrolling \cup {"ASKED_LICENSE"}
         /\ Ran("fn_set_license") /\ upd.data # "confirm_true" => upd.to = "REJECTED_LICENSE"

\* A chat's name was typed with a capital and passed, its license was
\* accepted and it is asked to enroll, while the other chat's name is not
\* listed and it is still asked for its name.
EnrollOnlyAfterLicenseWitness ==
    /\ LicenseAccepted /\ upd.c = 1 /\ upd.to = "ASKED_ENROLL"
    /\ chat[1] = "ASKED_ENROLL" /\ chat[2] = "ASKED_NAME"
    /\ 1 \in authorized /\ 2 \notin authorized
====
